---- MODULE Spec2Model ----
(***************************************************************************)
(* Model of the limit order book of src/src/main.rs: struct Order, struct  *)
(* OrderBook and the operations new, add_order, modify_order and           *)
(* match_orders.                                                           *)
(*                                                                         *)
(* Prices and quantities are f64 in the source; here they range over small *)
(* integers, all of which f64 represents exactly, so min, comparison and   *)
(* subtraction are the exact ones.  NaN is not among the values.           *)
(***************************************************************************)
EXTENDS Integers, Sequences, FiniteSets, TLC

\* ---------------------------------------------------------------- bounds
\* submissions per run, price levels, largest submitted quantity, calls of
\* modify_order per run
MaxOrders == 3
MaxPrice == 2
MaxQty == 2
MaxModifies == 1

\* the fallback price of OrderBook::new
DefaultPrice == 45700

Prices == 1..MaxPrice
Quantities == 1..MaxQty
\* timestamps are caller-supplied and need not increase: an earlier and a later one
Timestamps == {0, 1}
\* the values a caller hands to modify_order: any f64, also zero and negative
NewQuantities == (-1)..MaxQty
\* ids a caller may name, among them ids never issued
OrderIds == 1..(MaxOrders + 1)
\* Option<f64>
None == [some |-> FALSE, value |-> 0]
Some(v) == [some |-> TRUE, value |-> v]

\* what the quote source may answer.  A transport error, an unreadable body,
\* text that is not JSON, JSON that is not an array, or an array of objects;
\* an object has a symbol or none, and a price field that is missing, not a
\* string, a string that is no number, or a string that parses to value
MaxItems == 2
Symbols == {"absent", "BTCUSDT", "ETHBTC"}
PriceFields == {[kind |-> "absent", value |-> 0], [kind |-> "number", value |-> DefaultPrice + 1],
                [kind |-> "junk", value |-> 0], [kind |-> "text", value |-> DefaultPrice + 1]}
Items == [symbol : Symbols, price : PriceFields]
Responses ==
    {[kind |-> k, items |-> <<>>] : k \in {"NetErr", "TextErr", "BadJson", "NotArray"}}
    \cup {[kind |-> "Array", items |-> a] : a \in UNION {[1..n -> Items] : n \in 0..MaxItems}}

VARIABLES
    buy_orders,      \* OrderBook.buy_orders, head first
    sell_orders,     \* OrderBook.sell_orders, head first
    next_order_id,   \* OrderBook.next_order_id
    current_price,   \* OrderBook.current_price
    fetched,         \* what fetch_current_price returned at construction
    last_op,         \* the last operation called and its arguments
    pre_buy,         \* buy_orders when the last operation was called
    pre_sell,        \* sell_orders when the last operation was called
    pre_next,        \* next_order_id when the last operation was called
    trace,           \* the iterations of the match loop in the last operation
    issued,          \* the ids given to submitted orders, in submission order
    modifies         \* how many times modify_order was called

vars == <<buy_orders, sell_orders, next_order_id, current_price, fetched,
          last_op, pre_buy, pre_sell, pre_next, trace, issued, modifies>>

\* ---------------------------------------------------------------- Order
Order(id, price, quantity, timestamp) ==
    [id |-> id, price |-> price, quantity |-> quantity, timestamp |-> timestamp]

\* f64::min on ordered values
Min(a, b) == IF a <= b THEN a ELSE b

\* ---------------------------------------------------------------- sorting
\* the comparators handed to sort_by: descending price for the buy side,
\* ascending price for the sell side, then ascending timestamp
TimestampCmp(a, b) ==
    IF a.timestamp < b.timestamp THEN "Less"
    ELSE IF a.timestamp > b.timestamp THEN "Greater"
    ELSE "Equal"

\* BuyCmp with the price comparison the way of the sell side
BuyCmpAscending(a, b) ==
    IF a.price < b.price THEN "Less"
    ELSE IF a.price > b.price THEN "Greater"
    ELSE TimestampCmp(a, b)

BuyCmp(a, b) ==
    IF b.price < a.price THEN "Less"
    ELSE IF b.price > a.price THEN "Greater"
    ELSE TimestampCmp(a, b)

\* SellCmp without the timestamp tie-break
SellCmpPriceOnly(a, b) ==
    IF a.price < b.price THEN "Less"
    ELSE IF a.price > b.price THEN "Greater"
    ELSE "Equal"

SellCmp(a, b) ==
    IF a.price < b.price THEN "Less"
    ELSE IF a.price > b.price THEN "Greater"
    ELSE TimestampCmp(a, b)

OrderCmp(is_buy, a, b) == IF is_buy THEN BuyCmp(a, b) ELSE SellCmp(a, b)

\* Slot of a sort that is not stable: x also moves past the elements that
\* compare Equal to it
SlotPastEqual(is_buy, s, x, k) ==
    LET stop == {i \in 1..k : OrderCmp(is_buy, s[i], x) = "Less"}
    IN IF stop = {} THEN 0 ELSE CHOOSE i \in stop : \A j \in stop : j <= i

\* where x, appended behind s, comes to rest in a stable sort: it moves left
\* past the elements that compare Greater than it, from s[k] down, and stops
\* behind the first that does not
RECURSIVE Slot(_, _, _, _)
Slot(is_buy, s, x, k) ==
    IF k > 0 /\ OrderCmp(is_buy, s[k], x) = "Greater"
    THEN Slot(is_buy, s, x, k - 1)
    ELSE k

\* one insertion of the stable sort
InsertSorted(is_buy, s, x) ==
    LET k == Slot(is_buy, s, x, Len(s))
    IN [i \in 1..(Len(s) + 1) |->
           IF i <= k THEN s[i] ELSE IF i = k + 1 THEN x ELSE s[i - 1]]

\* SortBy that leaves the pushed order at the back
SortByNothing(is_buy, s) == s

\* slice::sort_by, a stable sort
RECURSIVE SortBy(_, _)
SortBy(is_buy, s) ==
    IF Len(s) = 0 THEN <<>>
    ELSE InsertSorted(is_buy, SortBy(is_buy, SubSeq(s, 1, Len(s) - 1)), s[Len(s)])

\* ---------------------------------------------------------------- matching
\* Crosses without the price comparison: any two heads trade
CrossesAtAnyPrice(b, s) == Len(b) > 0 /\ Len(s) > 0

\* Crosses with > for >=: equal prices do not trade
CrossesStrictly(b, s) == Len(b) > 0 /\ Len(s) > 0 /\ Head(b).price > Head(s).price

\* the two heads cross: the condition of the if inside the match loop
Crosses(b, s) == Len(b) > 0 /\ Len(s) > 0 /\ Head(b).price >= Head(s).price

\* TransactionQuantity capped at a lot of one unit
TransactionQuantityOneLot(buy_order, sell_order) ==
    Min(Min(buy_order.quantity, sell_order.quantity), 1)

\* TransactionQuantity with max for min
TransactionQuantityMax(buy_order, sell_order) ==
    IF buy_order.quantity >= sell_order.quantity
    THEN buy_order.quantity ELSE sell_order.quantity

\* let transaction_quantity = buy_order.quantity.min(sell_order.quantity)
TransactionQuantity(buy_order, sell_order) ==
    Min(buy_order.quantity, sell_order.quantity)

\* TradePrice taking the buy order's price
TradePriceOfBuy(buy_order, sell_order) == buy_order.price

\* the price printed for a trade: the sell order's
TradePrice(buy_order, sell_order) == sell_order.price

\* Fill that reduces the cloned head and not the one in the queue: a head with
\* more than the transaction quantity stays as it was
FillOnClone(q, transaction_quantity) ==
    IF Head(q).quantity > transaction_quantity THEN q ELSE Tail(q)

\* Fill without the partial branch: the head is always removed
FillAlwaysPops(q, transaction_quantity) == Tail(q)

\* what a trade does to the side q whose head it fills: a head with more than
\* the transaction quantity keeps the rest (front_mut), any other head is
\* removed (pop_front)
Fill(q, transaction_quantity) ==
    IF Head(q).quantity > transaction_quantity
    THEN [q EXCEPT ![1].quantity = @ - transaction_quantity]
    ELSE Tail(q)

\* one iteration of the while loop of match_orders that takes the if branch:
\* the trade it prints, with the book before and after it
MatchStep(b, s) ==
    LET buy_order == Head(b)
        sell_order == Head(s)
        transaction_quantity == TransactionQuantity(buy_order, sell_order)
    IN [buy_id |-> buy_order.id, sell_id |-> sell_order.id,
        price |-> TradePrice(buy_order, sell_order),
        quantity |-> transaction_quantity,
        buy_before |-> b, sell_before |-> s,
        buy_after |-> Fill(b, transaction_quantity),
        sell_after |-> Fill(s, transaction_quantity)]

\* match_orders: the loop runs while both sides are non-empty and the heads
\* cross; the result is the book it leaves and the trades it printed
RECURSIVE match_orders(_, _, _)
match_orders(b, s, printed) ==
    IF Crosses(b, s)
    THEN LET step == MatchStep(b, s)
         IN match_orders(step.buy_after, step.sell_after, Append(printed, step))
    ELSE [buy |-> b, sell |-> s, trace |-> printed]

\* ---------------------------------------------------------------- construction
\* price.as_str().and_then(|p| p.parse::<f64>().ok())
ParsePrice(price) == IF price.kind = "text" THEN Some(price.value) ELSE None

\* the for loop of fetch_current_price over the array, from item i on: the
\* first object with symbol BTCUSDT and a price field decides the result
RECURSIVE ScanArray(_, _)
ScanArray(items, i) ==
    IF i > Len(items) THEN None
    ELSE IF items[i].symbol = "BTCUSDT" /\ items[i].price.kind # "absent"
         THEN ParsePrice(items[i].price)
         ELSE ScanArray(items, i + 1)

fetch_current_price(response) ==
    IF response.kind = "Array" THEN ScanArray(response.items, 1) ELSE None

\* UnwrapOr as unwrap_or_default: no value gives 0.0
UnwrapOrZero(opt, default) == IF opt.some THEN opt.value ELSE 0

\* Option::unwrap_or
UnwrapOr(opt, default) == IF opt.some THEN opt.value ELSE default

\* ---------------------------------------------------------------- operations
NoOp == [op |-> "new", price |-> 0, quantity |-> 0, is_buy |-> FALSE,
         timestamp |-> 0, id |-> 0]

\* OrderBook::new, given what the quote source answers
new(response) ==
    /\ buy_orders = <<>>
    /\ sell_orders = <<>>
    /\ next_order_id = 1
    /\ current_price = UnwrapOr(fetch_current_price(response), DefaultPrice)
    /\ fetched = fetch_current_price(response)

\* NextOrderId without the increment
NextOrderIdStuck(id) == id

\* self.next_order_id += 1
NextOrderId(id) == id + 1

add_order(price, quantity, is_buy, timestamp) ==
    LET order == Order(next_order_id, price, quantity, timestamp)
        b1 == IF is_buy THEN SortBy(TRUE, Append(buy_orders, order)) ELSE buy_orders
        s1 == IF is_buy THEN sell_orders ELSE SortBy(FALSE, Append(sell_orders, order))
        m == match_orders(b1, s1, <<>>)
    IN /\ next_order_id <= MaxOrders
       /\ next_order_id' = NextOrderId(next_order_id)
       /\ buy_orders' = m.buy
       /\ sell_orders' = m.sell
       /\ trace' = m.trace
       /\ issued' = Append(issued, order.id)
       /\ last_op' = [op |-> "add_order", price |-> price, quantity |-> quantity,
                      is_buy |-> is_buy, timestamp |-> timestamp, id |-> order.id]
       /\ pre_buy' = buy_orders
       /\ pre_sell' = sell_orders
       /\ pre_next' = next_order_id
       /\ UNCHANGED <<current_price, fetched, modifies>>

\* SetFirst writing the new value into the price
SetFirstPrice(s, order_id, new_quantity) ==
    LET hits == {i \in 1..Len(s) : s[i].id = order_id}
    IN IF hits = {} THEN s
       ELSE LET k == CHOOSE i \in hits : \A j \in hits : i <= j
            IN [s EXCEPT ![k].price = new_quantity]

\* SetFirst putting a rebuilt order in the place, with timestamp 0
SetFirstLosesTime(s, order_id, new_quantity) ==
    LET hits == {i \in 1..Len(s) : s[i].id = order_id}
    IN IF hits = {} THEN s
       ELSE LET k == CHOOSE i \in hits : \A j \in hits : i <= j
            IN [s EXCEPT ![k] = Order(order_id, s[k].price, new_quantity, 0)]

\* SetFirst adding the new quantity to the old one
SetFirstAdds(s, order_id, new_quantity) ==
    LET hits == {i \in 1..Len(s) : s[i].id = order_id}
    IN IF hits = {} THEN s
       ELSE LET k == CHOOSE i \in hits : \A j \in hits : i <= j
            IN [s EXCEPT ![k].quantity = @ + new_quantity]

\* SetFirst with >= for == in the comparison of ids
SetFirstAtLeast(s, order_id, new_quantity) ==
    LET hits == {i \in 1..Len(s) : s[i].id >= order_id}
    IN IF hits = {} THEN s
       ELSE LET k == CHOOSE i \in hits : \A j \in hits : i <= j
            IN [s EXCEPT ![k].quantity = new_quantity]

\* the first order of buy_orders chained with sell_orders that has the id
\* gets the new quantity; at most one order is written (break)
SetFirst(s, order_id, new_quantity) ==
    LET hits == {i \in 1..Len(s) : s[i].id = order_id}
    IN IF hits = {} THEN s
       ELSE LET k == CHOOSE i \in hits : \A j \in hits : i <= j
            IN [s EXCEPT ![k].quantity = new_quantity]

HasId(s, order_id) == \E i \in 1..Len(s) : s[i].id = order_id

modify_order(order_id, new_quantity) ==
    /\ modifies < MaxModifies
    /\ modifies' = modifies + 1
    /\ buy_orders' = SetFirst(buy_orders, order_id, new_quantity)
    /\ sell_orders' = IF HasId(buy_orders, order_id) THEN sell_orders
                      ELSE SetFirst(sell_orders, order_id, new_quantity)
    /\ trace' = <<>>
    /\ last_op' = [op |-> "modify_order", price |-> 0, quantity |-> new_quantity,
                   is_buy |-> FALSE, timestamp |-> 0, id |-> order_id]
    /\ pre_buy' = buy_orders
    /\ pre_sell' = sell_orders
    /\ pre_next' = next_order_id
    /\ UNCHANGED <<next_order_id, current_price, fetched, issued>>

\* ---------------------------------------------------------------- specifications
Init ==
    /\ \E response \in Responses : new(response)
    /\ last_op = NoOp
    /\ pre_buy = <<>>
    /\ pre_sell = <<>>
    /\ pre_next = 1
    /\ trace = <<>>
    /\ issued = <<>>
    /\ modifies = 0

\* a submission with price > 0 and quantity > 0
Submit ==
    \E price \in Prices, quantity \in Quantities, is_buy \in BOOLEAN,
       timestamp \in Timestamps :
        add_order(price, quantity, is_buy, timestamp)

\* a submission with any price and quantity, zero and negative ones too
AnyPrices == (-1)..MaxPrice
AnyQuantities == (-1)..MaxQty

SubmitAny ==
    \E price \in AnyPrices, quantity \in AnyQuantities, is_buy \in BOOLEAN,
       timestamp \in Timestamps :
        add_order(price, quantity, is_buy, timestamp)

Modify ==
    \E order_id \in OrderIds, new_quantity \in NewQuantities :
        modify_order(order_id, new_quantity)

Next == Submit \/ Modify

\* any sequence of valid submissions and modifications
Spec == Init /\ [][Next]_vars

\* any sequence of valid submissions
SpecSubmit == Init /\ [][Submit]_vars

\* any sequence of submissions, valid or not
SpecAny == Init /\ [][SubmitAny]_vars

\* ---------------------------------------------------------------- properties
LastIsAdd == last_op.op = "add_order"

\* the buy side order: price non-increasing, timestamp non-decreasing among
\* neighbours of equal price
BuySorted(q) ==
    \A i \in 1..(Len(q) - 1) :
        \/ q[i].price > q[i + 1].price
        \/ q[i].price = q[i + 1].price /\ q[i].timestamp <= q[i + 1].timestamp

\* the sell side order: price non-decreasing, timestamp non-decreasing among
\* neighbours of equal price
SellSorted(q) ==
    \A i \in 1..(Len(q) - 1) :
        \/ q[i].price < q[i + 1].price
        \/ q[i].price = q[i + 1].price /\ q[i].timestamp <= q[i + 1].timestamp

C2_BuySideSorted ==
    /\ BuySorted(buy_orders)
    /\ \A k \in 1..Len(trace) :
           BuySorted(trace[k].buy_before) /\ BuySorted(trace[k].buy_after)

\* a buy went in ahead of two resting buys, one of its price and a later
\* timestamp and one of a lower price
C2_Witness ==
    /\ LastIsAdd /\ last_op.is_buy
    /\ Len(buy_orders) = 3
    /\ Head(buy_orders).id = last_op.id
    /\ buy_orders[2].price = buy_orders[1].price
    /\ buy_orders[2].timestamp > buy_orders[1].timestamp
    /\ buy_orders[3].price < buy_orders[2].price

\* C3: after every submit of a run of valid submissions sell_orders is sorted
\* by non-decreasing price and, at equal price, non-decreasing timestamp; so
\* it is before and after every trade of the matching pass.
C3_SellSideSorted ==
    /\ SellSorted(sell_orders)
    /\ \A k \in 1..Len(trace) :
           SellSorted(trace[k].sell_before) /\ SellSorted(trace[k].sell_after)

\* a sell went in ahead of two resting sells, one of its price and a later
\* timestamp and one of a higher price
C3_Witness ==
    /\ LastIsAdd /\ ~last_op.is_buy
    /\ Len(sell_orders) = 3
    /\ Head(sell_orders).id = last_op.id
    /\ sell_orders[2].price = sell_orders[1].price
    /\ sell_orders[2].timestamp > sell_orders[1].timestamp
    /\ sell_orders[3].price > sell_orders[2].price

\* C4: after any run of valid submissions and modifications every order
\* resting in buy_orders or sell_orders has quantity > 0.
C4_RestingQuantitiesPositive ==
    /\ \A i \in 1..Len(buy_orders) : buy_orders[i].quantity > 0
    /\ \A i \in 1..Len(sell_orders) : sell_orders[i].quantity > 0

\* the sum of the quantities of the orders of q
RECURSIVE SumQty(_)
SumQty(q) == IF Len(q) = 0 THEN 0 ELSE Head(q).quantity + SumQty(Tail(q))

\* the sum of the quantities of the trades of t
RECURSIVE SumTrades(_)
SumTrades(t) == IF Len(t) = 0 THEN 0 ELSE Head(t).quantity + SumTrades(Tail(t))

\* the order the last add_order created
NewOrder == Order(last_op.id, last_op.price, last_op.quantity, last_op.timestamp)

\* q without its i-th element
RemoveAt(q, i) == SubSeq(q, 1, i - 1) \o SubSeq(q, i + 1, Len(q))

C6_TradeAtSellPrice ==
    /\ \A k \in 1..Len(trace) :
           /\ trace[k].price = Head(trace[k].sell_before).price
           /\ trace[k].sell_id = Head(trace[k].sell_before).id
    /\ (LastIsAdd /\ ~last_op.is_buy) =>
           \A k \in 1..Len(trace) :
               trace[k].price = last_op.price /\ trace[k].sell_id = last_op.id

\* an incoming sell traded below the price of the resting buy it hit
C6_Witness ==
    /\ LastIsAdd /\ ~last_op.is_buy
    /\ Len(trace) > 0
    /\ Head(trace[1].buy_before).price > trace[1].price

\* C7: with valid submissions every trade's quantity is the smaller of the
\* two heads' remaining quantities and is strictly positive.
C7_TradeQuantityIsMin ==
    \A k \in 1..Len(trace) :
        LET bq == Head(trace[k].buy_before).quantity
            sq == Head(trace[k].sell_before).quantity
        IN /\ trace[k].quantity > 0
           /\ trace[k].quantity <= bq
           /\ trace[k].quantity <= sq
           /\ trace[k].quantity = bq \/ trace[k].quantity = sq

\* a trade between a smaller head buy and a larger head sell
C7_Witness ==
    /\ LastIsAdd
    /\ Len(trace) > 0
    /\ Head(trace[1].buy_before).quantity < Head(trace[1].sell_before).quantity

\* what a trade of quantity tq leaves of the side that was `was`: the tail
\* when the head had exactly tq, the head reduced by tq and the same tail
\* when the head had more
FilledBy(was, now, tq) ==
    /\ Head(was).quantity = tq => now = Tail(was)
    /\ Head(was).quantity > tq =>
           now = <<Order(Head(was).id, Head(was).price, Head(was).quantity - tq,
                         Head(was).timestamp)>> \o Tail(was)

NonCrossingSubmit ==
    /\ LastIsAdd
    /\ IF last_op.is_buy
       THEN \A i \in 1..Len(pre_sell) : last_op.price < pre_sell[i].price
       ELSE \A i \in 1..Len(pre_buy) : last_op.price > pre_buy[i].price

\* C9: a submit that crosses no resting order of the opposite side reports no
\* trade, leaves the opposite side as it was and adds the new order, with its
\* full quantity, to its own side, whose other orders stay as they were.
C9_NonCrossingSubmit ==
    NonCrossingSubmit =>
        LET own == IF last_op.is_buy THEN buy_orders ELSE sell_orders
            own_was == IF last_op.is_buy THEN pre_buy ELSE pre_sell
        IN /\ trace = <<>>
           /\ last_op.is_buy => sell_orders = pre_sell
           /\ ~last_op.is_buy => buy_orders = pre_buy
           /\ \E i \in 1..Len(own) : own[i] = NewOrder /\ RemoveAt(own, i) = own_was

\* a buy below every resting sell arrived at a book with orders on both sides
C9_Witness ==
    /\ NonCrossingSubmit
    /\ last_op.is_buy
    /\ Len(pre_sell) > 0
    /\ Len(pre_buy) > 0

\* the orders resting on either side
Resting == buy_orders \o sell_orders

\* C10: next_order_id starts at 1 and every submit adds exactly 1 to it, the
\* k-th submitted order has id k, no two resting orders share an id and every
\* resting id was issued.
C10_IdsUnique ==
    /\ next_order_id = Len(issued) + 1
    /\ \A k \in 1..Len(issued) : issued[k] = k
    /\ \A i, j \in 1..Len(Resting) : Resting[i].id = Resting[j].id => i = j
    /\ \A i \in 1..Len(Resting) : Resting[i].id \in 1..Len(issued)
    /\ LastIsAdd => last_op.id = pre_next /\ next_order_id = pre_next + 1

\* three orders were submitted, one was matched away and one rests on each side
C10_Witness ==
    /\ Len(issued) = 3
    /\ Len(buy_orders) = 1
    /\ Len(sell_orders) = 1

LastIsModify == last_op.op = "modify_order"

\* the id named by the last operation rested in the book when it was called
IdWasResting == HasId(pre_buy, last_op.id) \/ HasId(pre_sell, last_op.id)

\* C11: modify_order with an id that is in neither buy_orders nor
\* sell_orders changes nothing: both sides and next_order_id are as before,
\* current_price is still the price of the construction and no trade is
\* reported.
C11_ModifyUnknownIdIsNoOp ==
    (LastIsModify /\ ~IdWasResting) =>
        /\ buy_orders = pre_buy
        /\ sell_orders = pre_sell
        /\ next_order_id = pre_next
        /\ current_price = UnwrapOr(fetched, DefaultPrice)
        /\ trace = <<>>

\* modify_order named an id that is not in a book with orders on both sides
C11_Witness ==
    /\ LastIsModify
    /\ ~IdWasResting
    /\ Len(pre_buy) > 0
    /\ Len(pre_sell) > 0

\* C12: a submit with price <= 0 or quantity <= 0 is rejected: it inserts no
\* order, so the book is as before and no order with a non-positive price or
\* quantity rests in it.
C12_InvalidSubmitRejected ==
    /\ (LastIsAdd /\ (last_op.price <= 0 \/ last_op.quantity <= 0)) =>
           buy_orders = pre_buy /\ sell_orders = pre_sell
    /\ \A i \in 1..Len(Resting) : Resting[i].price > 0 /\ Resting[i].quantity > 0

\* the answer of the quote source holds no usable price: the request or its
\* body failed, the text is no JSON array, or no object of the array has the
\* symbol BTCUSDT and a price that is a string holding a number
NoUsablePrice(response) ==
    \/ response.kind # "Array"
    \/ \A i \in 1..Len(response.items) :
           ~(response.items[i].symbol = "BTCUSDT" /\ response.items[i].price.kind = "text")

\* C13: construction always yields a book: it is empty with next_order_id 1,
\* its current_price is exactly 45700 when the fetch yields no price and the
\* fetched price otherwise; every answer without a usable price yields none.
C13_ConstructionFallsBack ==
    /\ ~fetched.some => current_price = DefaultPrice
    /\ fetched.some => current_price = fetched.value
    /\ last_op.op = "new" =>
           /\ buy_orders = <<>>
           /\ sell_orders = <<>>
           /\ next_order_id = 1
           /\ \A response \in Responses :
                  NoUsablePrice(response) => ~fetch_current_price(response).some

\* the book right after a construction whose fetch yielded no price
C13_Witness ==
    /\ last_op.op = "new"
    /\ ~fetched.some
    /\ current_price = DefaultPrice

\* q is was with the quantity of the order of the given id set to quantity
\* and nothing else changed
OnlyQuantityOf(was, q, id, quantity) ==
    /\ Len(q) = Len(was)
    /\ \A i \in 1..Len(was) :
           q[i] = IF was[i].id = id
                  THEN Order(was[i].id, was[i].price, quantity, was[i].timestamp)
                  ELSE was[i]

\* C14: modify_order with an id that is in the book sets that order's
\* quantity to new_quantity, whatever the value, and changes nothing else:
\* every order keeps its place, id, price and timestamp, all other orders
\* keep their quantity, next_order_id is as before and no trade is reported.
C14_ModifyOverwritesQuantity ==
    (LastIsModify /\ IdWasResting) =>
        /\ OnlyQuantityOf(pre_buy, buy_orders, last_op.id, last_op.quantity)
        /\ OnlyQuantityOf(pre_sell, sell_orders, last_op.id, last_op.quantity)
        /\ \E i \in 1..Len(Resting) :
               Resting[i].id = last_op.id /\ Resting[i].quantity = last_op.quantity
        /\ next_order_id = pre_next
        /\ trace = <<>>

\* a resting sell behind the head of its side got a negative quantity
C14_Witness ==
    /\ LastIsModify
    /\ last_op.quantity < 0
    /\ Len(pre_sell) >= 2
    /\ pre_sell[2].id = last_op.id
    /\ sell_orders[2].quantity = last_op.quantity

BestBuyFirst(q) ==
    \A i \in 2..Len(q) :
        /\ q[i].price <= q[1].price
        /\ q[i].price = q[1].price => q[i].timestamp >= q[1].timestamp

BestSellFirst(q) ==
    \A i \in 2..Len(q) :
        /\ q[i].price >= q[1].price
        /\ q[i].price = q[1].price => q[i].timestamp >= q[1].timestamp

\* C16: every trade is between the buy and the sell that are best by price
\* and then time when it happens: no other resting buy is priced higher than
\* the traded buy or equally with an earlier timestamp, no other resting sell
\* lower than the traded sell or equally with an earlier timestamp.
C16_PriceTimePriority ==
    \A k \in 1..Len(trace) :
        /\ trace[k].buy_id = trace[k].buy_before[1].id
        /\ trace[k].sell_id = trace[k].sell_before[1].id
        /\ BestBuyFirst(trace[k].buy_before)
        /\ BestSellFirst(trace[k].sell_before)

\* a trade with the later submitted of two resting sells of one price, which
\* has the earlier timestamp
C16_Witness ==
    /\ LastIsAdd
    /\ Len(trace) > 0
    /\ Len(trace[1].sell_before) >= 2
    /\ trace[1].sell_before[1].price = trace[1].sell_before[2].price
    /\ trace[1].sell_before[1].timestamp < trace[1].sell_before[2].timestamp
    /\ trace[1].sell_before[1].id > trace[1].sell_before[2].id

\* the ids of the orders of q
IdsOf(q) == {q[i].id : i \in 1..Len(q)}

\* the last operation was a submit and the order of the given id traded in it
TradedInLast(id) ==
    LastIsAdd /\ \E k \in 1..Len(trace) : trace[k].buy_id = id \/ trace[k].sell_id = id

\* what the last operation may have done to the side q that was `was`: an
\* order of q was on this side before with its price and timestamp, or is the
\* order just submitted to this side under the next id; a quantity differs
\* only after a trade of the order or a modify_order naming it; an order is
\* gone only after a trade
SideKept(was, q, is_buy_side) ==
    /\ \A i \in 1..Len(q) :
           \/ \E j \in 1..Len(was) :
                  /\ was[j].id = q[i].id
                  /\ was[j].price = q[i].price
                  /\ was[j].timestamp = q[i].timestamp
                  /\ was[j].quantity # q[i].quantity =>
                         \/ TradedInLast(q[i].id)
                         \/ LastIsModify /\ last_op.id = q[i].id
           \/ /\ LastIsAdd
              /\ last_op.is_buy = is_buy_side
              /\ q[i].id = pre_next
              /\ q[i].id = last_op.id
              /\ q[i].price = last_op.price
              /\ q[i].timestamp = last_op.timestamp
              /\ q[i].quantity # last_op.quantity => TradedInLast(q[i].id)
    /\ \A j \in 1..Len(was) : was[j].id \notin IdsOf(q) => TradedInLast(was[j].id)

\* C17: over any run of submits and modifies an order enters the book only
\* by a submit, on the side named by is_buy and under a fresh id; while it
\* rests its id, price, timestamp and side do not change; its quantity
\* changes only by a trade or by a modify_order naming its id; it leaves only
\* by a trade and no later order gets its id.
C17_OrderLifecycle ==
    /\ SideKept(pre_buy, buy_orders, TRUE)
    /\ SideKept(pre_sell, sell_orders, FALSE)
    /\ IdsOf(buy_orders) \cap IdsOf(pre_sell) = {}
    /\ IdsOf(sell_orders) \cap IdsOf(pre_buy) = {}
    /\ IdsOf(buy_orders) \cap IdsOf(sell_orders) = {}
    /\ \A id \in IdsOf(pre_buy) \cup IdsOf(pre_sell) : id < pre_next
    /\ pre_next <= next_order_id

\* after a modify_order earlier in the run, a submitted sell partly filled the
\* resting head buy, which stays where it was
C17_Witness ==
    /\ LastIsAdd /\ ~last_op.is_buy
    /\ modifies > 0
    /\ Len(pre_buy) > 0
    /\ Len(buy_orders) > 0
    /\ buy_orders[1].id = pre_buy[1].id
    /\ buy_orders[1].quantity < pre_buy[1].quantity

\* C18: every trade of a submit has the submitted order on its side, so no
\* two orders that both rested before the submit trade with each other; only
\* a submit reports trades.
C18_TradesInvolveNewOrder ==
    /\ Len(trace) > 0 => LastIsAdd
    /\ \A k \in 1..Len(trace) :
           /\ IF last_op.is_buy THEN trace[k].buy_id = last_op.id
                                ELSE trace[k].sell_id = last_op.id
           /\ ~(trace[k].buy_id \in IdsOf(pre_buy) /\ trace[k].sell_id \in IdsOf(pre_sell))

\* a submitted buy traded with two resting sells, one after the other
C18_Witness ==
    /\ LastIsAdd /\ last_op.is_buy
    /\ Len(trace) = 2
    /\ trace[1].sell_id # trace[2].sell_id
    /\ trace[1].sell_id \in IdsOf(pre_sell)
    /\ trace[2].sell_id \in IdsOf(pre_sell)

EarlierFirst(q) ==
    \A i, j \in 1..Len(q) :
        (i < j /\ q[i].price = q[j].price /\ q[i].timestamp = q[j].timestamp)
            => q[i].id < q[j].id

\* C20: on each side, of two orders of equal price and equal timestamp the
\* one submitted earlier is nearer the head, in the book after every
\* operation and before every trade, so it is filled first.
C20_StableTies ==
    /\ EarlierFirst(buy_orders)
    /\ EarlierFirst(sell_orders)
    /\ \A k \in 1..Len(trace) :
           EarlierFirst(trace[k].buy_before) /\ EarlierFirst(trace[k].sell_before)

\* a trade filled the earlier submitted of two resting buys of one price and
\* one timestamp
C20_Witness ==
    /\ LastIsAdd /\ ~last_op.is_buy
    /\ Len(trace) > 0
    /\ Len(trace[1].buy_before) >= 2
    /\ trace[1].buy_before[1].price = trace[1].buy_before[2].price
    /\ trace[1].buy_before[1].timestamp = trace[1].buy_before[2].timestamp
    /\ trace[1].buy_id < trace[1].buy_before[2].id

====
